---------------------------- MODULE Spec2Model ----------------------------
(***************************************************************************)
(* A model of compose/config/serialize.py (the config denormalizer, the    *)
(* YAML string presenters and serialize_ns_time_value) and of              *)
(* compose/timeparse.py (the duration parser).                             *)
(*                                                                         *)
(* Python values are modelled as follows.                                  *)
(*   int    a little-endian sequence of limbs in base 2^10 without leading *)
(*          zero limbs (Python ints are unbounded; TLC's are 32 bit)       *)
(*   float  an IEEE-754 double, [m |-> int, e |-> exponent], of value      *)
(*          m * 2^e with m odd (or m = 0, e = 0); every operation rounds   *)
(*          its exact result to 53 bits, to nearest, ties to even          *)
(*   str    a sequence of one-character strings                            *)
(*   dict   a function from its keys to its values                         *)
(***************************************************************************)
EXTENDS Integers, Sequences, FiniteSets

(***************************************************************************)
(* Python int: unbounded naturals.                                         *)
(***************************************************************************)
Base == 2^10

\* x without its leading zero limbs
BigTrim(x) ==
    LET top == CHOOSE i \in 0..Len(x) :
                   /\ i = 0 \/ x[i] # 0
                   /\ \A j \in (i + 1)..Len(x) : x[j] = 0
    IN  SubSeq(x, 1, top)

RECURSIVE BigFromNat(_)
BigFromNat(n) ==
    IF n = 0 THEN <<>> ELSE <<n % Base>> \o BigFromNat(n \div Base)

\* whether limb i of the limb-by-limb sums raw passes a carry on: it
\* overflows, or it is full and takes a carry from below
RECURSIVE CarryOut(_, _)
CarryOut(raw, i) ==
    /\ i >= 1
    /\ \/ raw[i] >= Base
       \/ raw[i] = Base - 1 /\ CarryOut(raw, i - 1)

BigAdd(x, y) ==
    LET n   == IF Len(x) > Len(y) THEN Len(x) ELSE Len(y)
        raw == [i \in 1..n |-> (IF i <= Len(x) THEN x[i] ELSE 0)
                               + (IF i <= Len(y) THEN y[i] ELSE 0)]
    IN  BigTrim([i \in 1..(n + 1) |->
                    ((IF i <= n THEN raw[i] ELSE 0)
                     + (IF CarryOut(raw, i - 1) THEN 1 ELSE 0)) % Base])

\* x with n zero limbs below it: x * Base^n
BigShiftLimbs(x, n) == IF x = <<>> THEN x ELSE [k \in 1..n |-> 0] \o x

\* x * k for a machine-sized k < Base
BigMulSmall(x, k) ==
    BigAdd([i \in 1..Len(x) |-> (x[i] * k) % Base],
           BigShiftLimbs(BigTrim([i \in 1..Len(x) |-> (x[i] * k) \div Base]), 1))

\* x * y, by halves of y
RECURSIVE BigMul(_, _)
BigMul(x, y) ==
    IF y = <<>> \/ x = <<>> THEN <<>>
    ELSE IF Len(y) = 1 THEN BigMulSmall(x, y[1])
    ELSE LET h  == Len(y) \div 2
             lo == BigMul(x, BigTrim(SubSeq(y, 1, h)))
             hi == BigMul(x, SubSeq(y, h + 1, Len(y)))
         IN  IF hi = <<>> THEN lo ELSE BigAdd(lo, BigShiftLimbs(hi, h))

\* long division by a machine-sized d < 2^20, by halves from the top; xr is
\* the limbs to divide with, as one more limb above them, the remainder
\* r < d that comes down to them
RECURSIVE BigDivModRaw(_, _)
BigDivModRaw(xr, d) ==
    IF Len(xr) = 1 THEN [q |-> <<>>, r |-> xr[1]]
    ELSE IF Len(xr) = 2
         THEN [q |-> <<(xr[2] * Base + xr[1]) \div d>>,
               r |-> (xr[2] * Base + xr[1]) % d]
    ELSE LET h   == (Len(xr) - 1) \div 2
             top == BigDivModRaw(SubSeq(xr, h + 1, Len(xr)), d)
             bot == BigDivModRaw(Append(SubSeq(xr, 1, h), top.r), d)
         IN  [q |-> bot.q \o top.q, r |-> bot.r]

\* divmod(x, d) for a machine-sized d < 2^20: [q |-> x // d, r |-> x % d]
BigDivMod(x, d) ==
    LET qr == BigDivModRaw(Append(x, 0), d) IN [q |-> BigTrim(qr.q), r |-> qr.r]

RECURSIVE NatBitLen(_)
NatBitLen(n) == IF n = 0 THEN 0 ELSE 1 + NatBitLen(n \div 2)

BigBitLen(x) ==
    IF x = <<>> THEN 0 ELSE 10 * (Len(x) - 1) + NatBitLen(x[Len(x)])

BigIsOdd(x) == x # <<>> /\ x[1] % 2 = 1

\* x * 2^n
BigShl(x, n) == BigShiftLimbs(BigMulSmall(x, 2^(n % 10)), n \div 10)

\* x // 2^n, with st: whether a nonzero bit was shifted out
BigShr(x, n) ==
    LET limbs == IF n \div 10 < Len(x) THEN n \div 10 ELSE Len(x)
        qr    == BigDivMod(SubSeq(x, limbs + 1, Len(x)), 2^(n % 10))
    IN  [q |-> qr.q, st |-> qr.r # 0 \/ \E k \in 1..limbs : x[k] # 0]

(***************************************************************************)
(* Python float: IEEE-754 binary64, round to nearest, ties to even.  A      *)
(* float is m * 2^e with m odd; what rounds to 2^1024 or more is inf.  The *)
(* magnitudes met here stay far from the subnormals.                       *)
(***************************************************************************)
FZero == [m |-> <<>>, e |-> 0]

\* sys.float_info.max_exp: a float is less than 2^MaxExp
MaxExp == 1024

\* inf, held as the 2^MaxExp that an overflow rounds to
FInf == [m |-> <<1>>, e |-> MaxExp]

IsInf(x) == BigBitLen(x.m) + x.e > MaxExp

FClamp(x) == IF IsInf(x) THEN FInf ELSE x

\* the canonical form: the mantissa is odd
RECURSIVE FCanon(_, _)
FCanon(m, e) ==
    IF m = <<>> THEN FZero
    ELSE IF m[1] = 0 THEN FCanon(Tail(m), e + 10)
    ELSE IF m[1] % 2 = 0 THEN FCanon(BigDivMod(m, 2).q, e + 1)
    ELSE [m |-> m, e |-> e]

\* the double nearest to (m + fraction) * 2^e, where sticky tells whether the
\* fraction below m's last bit is nonzero (then m has more than 53 bits)
FRoundFinite(m, e, sticky) ==
    LET len == BigBitLen(m) IN
    IF len <= 53 THEN FCanon(m, e)
    ELSE LET s     == len - 53
             a     == BigShr(m, s - 1)
             guard == BigIsOdd(a.q)
             q     == BigDivMod(a.q, 2).q
             up    == guard /\ (a.st \/ sticky \/ BigIsOdd(q))
         IN  FCanon(IF up THEN BigAdd(q, <<1>>) ELSE q, e + s)

FRound(m, e, sticky) == FClamp(FRoundFinite(m, e, sticky))

\* n as a float, inf if n is too large for one
FFromInt(n) == FRound(n, 0, FALSE)

\* x * y; no factor here is zero when the other is inf
FMul(x, y) ==
    IF IsInf(x) \/ IsInf(y) THEN FInf
    ELSE FRound(BigMul(x.m, y.m), x.e + y.e, FALSE)

FAdd(x, y) ==
    IF IsInf(x) \/ IsInf(y) THEN FInf
    ELSE IF x.m = <<>> THEN y
    ELSE IF y.m = <<>> THEN x
    ELSE LET e == IF x.e < y.e THEN x.e ELSE y.e
         IN  FRound(BigAdd(BigShl(x.m, x.e - e), BigShl(y.m, y.e - e)), e, FALSE)

\* n / (d1 * d2 * ...) for an int n and machine-sized divisors, as one
\* correctly rounded division: the quotient is taken to 64 bits and more
RECURSIVE BigDivAll(_, _)
BigDivAll(x, ds) ==
    IF ds = <<>> THEN [q |-> x, st |-> FALSE]
    ELSE LET qr == BigDivMod(x, ds[1])
         IN  IF qr.r = 0 THEN BigDivAll(qr.q, Tail(ds))
             ELSE [q |-> BigDivAll(qr.q, Tail(ds)).q, st |-> TRUE]

FDiv(n, ds) ==
    LET k  == 64 + 20 * Len(ds)
        qs == BigDivAll(BigShl(n, k), ds)
    IN  IF n = <<>> THEN FZero ELSE FRound(qs.q, 0 - k, qs.st)

(***************************************************************************)
(* Python str and the conversions between str and int.                     *)
(***************************************************************************)
Digits == <<"0", "1", "2", "3", "4", "5", "6", "7", "8", "9">>

IsDigit(c) == \E i \in 1..10 : Digits[i] = c

DigitVal(c) == (CHOOSE i \in 1..10 : Digits[i] = c) - 1

\* str.isdigit()
StrIsDigit(s) == s # <<>> /\ \A i \in 1..Len(s) : IsDigit(s[i])

\* 10^k
RECURSIVE BigPow10(_)
BigPow10(k) ==
    IF k = 0 THEN <<1>>
    ELSE LET h == BigPow10(k \div 2)
         IN  IF h = <<>> THEN h
             ELSE IF k % 2 = 0 THEN BigMul(h, h) ELSE BigMulSmall(BigMul(h, h), 10)

\* int(s) for a str of decimal digits, by halves of s
RECURSIVE IntOfDigits(_)
IntOfDigits(s) ==
    IF s = <<>> THEN <<>>
    ELSE IF Len(s) = 1 THEN BigFromNat(DigitVal(s[1]))
    ELSE LET h  == Len(s) \div 2
             hi == IntOfDigits(SubSeq(s, 1, h))
             lo == IntOfDigits(SubSeq(s, h + 1, Len(s)))
         IN  IF hi = <<>> THEN lo
             ELSE BigAdd(BigMul(hi, BigPow10(Len(s) - h)), lo)

\* str(n) for an int n
RECURSIVE DigitsOfInt(_)
DigitsOfInt(n) ==
    IF n = <<>> THEN <<>>
    ELSE LET qr == BigDivMod(n, 10)
         IN  DigitsOfInt(qr.q) \o <<Digits[qr.r + 1]>>

StrOfInt(n) == IF n = <<>> THEN <<"0">> ELSE DigitsOfInt(n)

PyInt(n) == [t |-> "int", v |-> n]
PyStr(s) == [t |-> "str", v |-> s]
PyFloat(f) == [t |-> "float", v |-> f]
PyNone == [t |-> "None"]

Returned(v) == [ok |-> TRUE, val |-> v]
Raised(e) == [ok |-> FALSE, exc |-> e]

\* int(value): an int is returned as it is; a str must be a decimal literal
IntOf(value) ==
    IF value.t = "int" THEN Returned(value.v)
    ELSE IF value.t = "str" /\ StrIsDigit(value.v)
         THEN Returned(IntOfDigits(value.v))
    ELSE Raised("ValueError")

(***************************************************************************)
(* serialize.py: serialize_ns_time_value                                   *)
(***************************************************************************)
TimeTable == <<
    [factor |-> 1000, unit |-> <<"u", "s">>],
    [factor |-> 1000, unit |-> <<"m", "s">>],
    [factor |-> 1000, unit |-> <<"s">>],
    [factor |-> 60, unit |-> <<"m">>],
    [factor |-> 60, unit |-> <<"h">>] >>

\* the for loop over the table from entry i on, with its break
RECURSIVE PromoteFrom(_, _, _)
PromoteFrom(value, result, i) ==
    IF i > Len(TimeTable) THEN result
    ELSE LET dm == BigDivMod(value, TimeTable[i].factor)
         IN  IF dm.r = 0
             THEN PromoteFrom(dm.q, [value |-> dm.q, unit |-> TimeTable[i].unit], i + 1)
             ELSE result

\* as Promote, were zero kept out of the loop
Promote_ZeroStaysNs(value) ==
    IF value = <<>> THEN [value |-> value, unit |-> <<"n", "s">>]
    ELSE PromoteFrom(value, [value |-> value, unit |-> <<"n", "s">>], 1)

\* as Promote, were the loop to start at the table's second entry
Promote_SkipFirst(value) ==
    PromoteFrom(value, [value |-> value, unit |-> <<"n", "s">>], 2)

Promote(value) == PromoteFrom(value, [value |-> value, unit |-> <<"n", "s">>], 1)

serialize_ns_time_value(value) ==
    LET n == IntOf(value) IN
    IF ~n.ok THEN n
    ELSE LET result == Promote(n.val)
         IN  Returned(PyStr(StrOfInt(result.value) \o result.unit))

(***************************************************************************)
(* timeparse.py: TIMEFORMAT, MULTIPLIERS, timeparse, cast                  *)
(*                                                                         *)
(* re.match is modelled as the backtracking search it is: every quantifier *)
(* is greedy, alternatives are tried left to right, and the first way of   *)
(* matching the whole pattern gives the groups.  "mu" stands for the one   *)
(* character U+00B5 (micro sign).                                          *)
(***************************************************************************)
GroupNames == <<"hours", "mins", "secs", "milli", "micro", "nano">>

\* the literal(s) that end each component of TIMEFORMAT, in its order
UnitLiterals == <<
    << <<"h">> >>,
    << <<"m">> >>,
    << <<"s">> >>,
    << <<"m", "s">> >>,
    << <<"u", "s">>, <<"mu", "s">> >>,
    << <<"n", "s">> >> >>

\* re.I: the letters of the literals match in either case
Lower(c) ==
    CASE c = "H" -> "h" [] c = "M" -> "m" [] c = "S" -> "s"
      [] c = "U" -> "u" [] c = "N" -> "n" [] c = "Y" -> "y"
      [] c = "O" -> "o" [] OTHER -> c

\* \s
IsSpace(c) == c \in {" ", "\t", "\n"}

\* the number of characters from position pos on that satisfy \d
DigitRun(s, pos) ==
    LET stop == CHOOSE e \in pos..(Len(s) + 1) :
                    /\ e > Len(s) \/ ~IsDigit(s[e])
                    /\ \A j \in pos..(e - 1) : IsDigit(s[j])
    IN  stop - pos

\* FLOAT_NUMBER at pos: the positions just after it, in the order the search
\* tries them.  \d+ gives digits back one by one, \.? takes the point if it
\* is there, \d* takes what digits follow and gives them back one by one;
\* \.\d+ is tried last.  With fewer than all n digits in \d+, \d* ends at
\* positions already tried and at one new position; each position is listed
\* once, where it is first tried, as a later try of it fares as the first.
NumberEnds(s, pos) ==
    LET n      == DigitRun(s, pos)
        p      == pos + n
        dotted == IF n >= 1 /\ p <= Len(s) /\ s[p] = "."
                  THEN LET d == DigitRun(s, p + 1)
                       IN  [k \in 1..(d + 1) |-> p + 1 + (d + 1 - k)]
                  ELSE <<>>
        plain  == [k \in 1..n |-> pos + (n + 1 - k)]
        second == IF pos <= Len(s) /\ s[pos] = "."
                  THEN LET d == DigitRun(s, pos + 1)
                       IN  [k \in 1..d |-> pos + 1 + (d + 1 - k)]
                  ELSE <<>>
    IN  dotted \o plain \o second

\* whether the literal lit stands at pos
LiteralAt(s, pos, lit) ==
    /\ pos + Len(lit) - 1 <= Len(s)
    /\ \A k \in 1..Len(lit) : Lower(s[pos + k - 1]) = lit[k]

NoMatch == [matched |-> FALSE]

NoGroups == [k \in 1..6 |-> PyNone]

\* \s*$ at pos
TailMatches(s, pos) == \A k \in pos..Len(s) : IsSpace(s[k])

\* the components from i on, then \s*$, at pos; each component is optional
\* and greedy: it is tried before it is left out
RECURSIVE MatchFrom(_, _, _)
RECURSIVE MatchNumber(_, _, _, _)
RECURSIVE MatchLiteral(_, _, _, _, _)
MatchFrom(s, pos, i) ==
    IF i > 6
    THEN IF TailMatches(s, pos) THEN [matched |-> TRUE, groups |-> NoGroups]
         ELSE NoMatch
    ELSE LET with == MatchNumber(s, pos, i, NumberEnds(s, pos))
         IN  IF with.matched THEN with ELSE MatchFrom(s, pos, i + 1)

\* component i with its number ending at the first of ends from which the
\* rest matches
MatchNumber(s, pos, i, ends) ==
    LET hits == {k \in 1..Len(ends) : MatchLiteral(s, pos, i, ends[k], 1).matched}
    IN  IF hits = {} THEN NoMatch
        ELSE MatchLiteral(s, pos, i,
                          ends[CHOOSE k \in hits : \A j \in hits : k <= j], 1)

\* component i with its number ending at stop and its j-th literal, or a later one
MatchLiteral(s, pos, i, stop, j) ==
    IF j > Len(UnitLiterals[i]) THEN NoMatch
    ELSE LET lit  == UnitLiterals[i][j]
             rest == IF LiteralAt(s, stop, lit)
                     THEN MatchFrom(s, stop + Len(lit), i + 1)
                     ELSE NoMatch
         IN  IF rest.matched
             THEN [matched |-> TRUE,
                   groups |-> [rest.groups EXCEPT
                                 ![i] = PyStr(SubSeq(s, pos, stop - 1))]]
             ELSE MatchLiteral(s, pos, i, stop, j + 1)

\* \s* at the start, greedy, then the rest
RECURSIVE MatchAfterSpace(_, _)
MatchAfterSpace(s, n) ==
    IF n < 0 THEN NoMatch
    ELSE LET m == MatchFrom(s, n + 1, 1)
         IN  IF m.matched THEN m ELSE MatchAfterSpace(s, n - 1)

\* the number of characters from position pos on that satisfy \s
SpaceRun(s, pos) ==
    LET stop == CHOOSE e \in pos..(Len(s) + 1) :
                    /\ e > Len(s) \/ ~IsSpace(s[e])
                    /\ \A j \in pos..(e - 1) : IsSpace(s[j])
    IN  stop - pos

\* re.match(r'\s*' + TIMEFORMAT + r'\s*$', sval, re.I)
TIMEFORMAT(sval) == MatchAfterSpace(sval, SpaceRun(sval, 1))

\* MULTIPLIERS, by group
MULTIPLIERS == <<
    FMul(FFromInt(BigFromNat(60)), FFromInt(BigFromNat(60))),
    FFromInt(BigFromNat(60)),
    FFromInt(BigFromNat(1)),
    FDiv(BigFromNat(1), <<1000>>),
    FDiv(BigFromNat(1), <<1000, 1000>>),
    FDiv(BigFromNat(1), <<1000, 1000, 1000>>) >>

\* float(value) for a decimal literal with a point: digits, '.', digits
FloatOfLiteral(value) ==
    LET dot    == CHOOSE k \in 1..Len(value) : value[k] = "."
        digits == SubSeq(value, 1, dot - 1) \o SubSeq(value, dot + 1, Len(value))
    IN  FDiv(IntOfDigits(digits), [k \in 1..(Len(value) - dot) |-> 10])

\* cast(value): int(value) if value.isdigit() else float(value)
cast(value) ==
    IF StrIsDigit(value) THEN PyInt(IntOfDigits(value))
    ELSE PyFloat(FloatOfLiteral(value))

\* MULTIPLIERS[k] * cast(v): an int is converted to a float first, which
\* raises OverflowError if it is too large for one
Product(multiplier, number) ==
    IF number.t = "float" THEN Returned(FMul(multiplier, number.v))
    ELSE IF IsInf(FFromInt(number.v)) THEN Raised("OverflowError")
    ELSE Returned(FMul(multiplier, FFromInt(number.v)))

\* sum(MULTIPLIERS[k] * cast(v) for (k, v) in mdict.items() if v is not None)
RECURSIVE SumGroups(_, _, _)
RECURSIVE SumFrom(_, _, _, _)
SumGroups(groups, i, acc) ==
    IF i > 6 THEN Returned(PyFloat(acc))
    ELSE IF groups[i] = PyNone THEN SumGroups(groups, i + 1, acc)
    ELSE SumFrom(groups, i, acc, Product(MULTIPLIERS[i], cast(groups[i].v)))

SumFrom(groups, i, acc, product) ==
    IF product.ok THEN SumGroups(groups, i + 1, FAdd(acc, product.val))
    ELSE product

AllSpace(s) == \A k \in 1..Len(s) : IsSpace(s[k])

\* what the call gives: Returned(None), Returned(a float) or Raised(...)
timeparse(sval) ==
    LET match == TIMEFORMAT(sval) IN
    IF ~match.matched \/ AllSpace(sval) THEN Returned(PyNone)
    ELSE SumGroups(match.groups, 1, FZero)

(***************************************************************************)
(* Python dict and the heap.  The objects that serialize.py may write to   *)
(* through a reference it did not create itself (a service's healthcheck   *)
(* dict, an entry of networks, volumes, secrets or configs) live in the    *)
(* heap and are held by address; dict.copy() is shallow, so a copy holds   *)
(* the same addresses.                                                     *)
(***************************************************************************)
Has(d, k) == k \in DOMAIN d

Put(d, k, v) == [x \in (DOMAIN d) \cup {k} |-> IF x = k THEN v ELSE d[x]]

Del(d, k) == [x \in (DOMAIN d) \ {k} |-> d[x]]

EmptyDict == [x \in {} |-> x]

PyBool(b) == [t |-> "bool", v |-> b]
PyDict(d) == [t |-> "dict", v |-> d]
PyList(l) == [t |-> "list", v |-> l]

\* bool(v)
Truthy(v) ==
    CASE v.t = "None" -> FALSE
      [] v.t = "bool" -> v.v
      [] v.t = "dict" -> DOMAIN v.v # {}
      [] OTHER -> v.v # <<>>

(***************************************************************************)
(* compose.const: the schema versions.  A version compares as the list of  *)
(* its numbers; str() joins them with points.                              *)
(***************************************************************************)
V1 == <<1>>
V2_1 == <<2, 1>>
V2_3 == <<2, 3>>
V3_0 == <<3, 0>>
V3_2 == <<3, 2>>
V3_4 == <<3, 4>>
V3_5 == <<3, 5>>

\* a < b
RECURSIVE VersionLess(_, _)
VersionLess(a, b) ==
    IF b = <<>> THEN FALSE
    ELSE IF a = <<>> THEN TRUE
    ELSE IF a[1] # b[1] THEN a[1] < b[1]
    ELSE VersionLess(Tail(a), Tail(b))

\* str(version)
RECURSIVE VersionStr(_)
VersionStr(v) ==
    IF Len(v) = 1 THEN StrOfInt(BigFromNat(v[1]))
    ELSE StrOfInt(BigFromNat(v[1])) \o <<".">> \o VersionStr(Tail(v))

(***************************************************************************)
(* compose.config.types, as far as serialize.py calls it                   *)
(***************************************************************************)
\* types.serialize_restart_spec: the policy name, with the retry count if any
serialize_restart_spec(restart) ==
    IF restart.MaximumRetryCount = 0 THEN restart.Name
    ELSE restart.Name \o <<":">> \o StrOfInt(BigFromNat(restart.MaximumRetryCount))

\* ServicePort.legacy_repr, MountSpec.legacy_repr: the short string form
legacy_repr(spec) == PyStr(spec.short)

\* isinstance(v, types.MountSpec)
IsMountSpec(v) == v.t = "MountSpec"

(***************************************************************************)
(* serialize.py: denormalize_service_dict                                  *)
(***************************************************************************)
Running(heap) == [ok |-> TRUE, exc |-> "", heap |-> heap]

\* the value of a duration replaced, in the dict at addr, by what
\* serialize_ns_time_value returned for it; its exception goes up
StoreDuration(st, addr, key, r) ==
    IF r.ok THEN [st EXCEPT !.heap[addr] = Put(st.heap[addr], key, r.val)]
    ELSE [st EXCEPT !.ok = FALSE, !.exc = r.exc]

\* one of the three healthcheck durations: lines 185-197
SerializeDuration(st, addr, key) ==
    IF ~st.ok \/ ~Has(st.heap[addr], key) THEN st
    ELSE StoreDuration(st, addr, key, serialize_ns_time_value(st.heap[addr][key]))

\* lines 184-197: the healthcheck dict is the caller's, reached through the copy
SerializeHealthcheck(heap, service_dict) ==
    IF ~Has(service_dict, "healthcheck") THEN Running(heap)
    ELSE SerializeDuration(
             SerializeDuration(
                 SerializeDuration(Running(heap),
                                   service_dict["healthcheck"], "interval"),
                 service_dict["healthcheck"], "timeout"),
             service_dict["healthcheck"], "start_period")

\* sorted(list of str): insertion into an ordered list, by code point
Letters == <<"$", "a", "b", "c", "d", "e", "f", "h", "l", "n", "o", "r", "s",
             "t", "u", "w", "x", "y">>

Ord(c) == CHOOSE i \in 1..Len(Letters) : Letters[i] = c

RECURSIVE StrLess(_, _)
StrLess(a, b) ==
    IF b = <<>> THEN FALSE
    ELSE IF a = <<>> THEN TRUE
    ELSE IF a[1] # b[1] THEN Ord(a[1]) < Ord(b[1])
    ELSE StrLess(Tail(a), Tail(b))

RECURSIVE Insert(_, _)
Insert(sorted, x) ==
    IF sorted = <<>> THEN <<x>>
    ELSE IF StrLess(x, sorted[1]) THEN <<x>> \o sorted
    ELSE <<sorted[1]>> \o Insert(Tail(sorted), x)

RECURSIVE SortedKeys(_)
SortedKeys(keys) ==
    IF keys = {} THEN <<>>
    ELSE LET k == CHOOSE x \in keys : TRUE
         IN  Insert(SortedKeys(keys \ {k}), k)

\* lines 168-169
SetImage(d, image_digest) ==
    IF Truthy(image_digest) THEN Put(d, "image", image_digest) ELSE d

\* lines 171-174
SerializeRestart(d) ==
    IF Has(d, "restart")
    THEN Put(d, "restart", PyStr(serialize_restart_spec(d["restart"])))
    ELSE d

\* lines 176-177
DefaultNetworkMode(d, version) ==
    IF version = V1 /\ ~Has(d, "network_mode")
    THEN Put(d, "network_mode", PyStr(<<"b", "r", "i", "d", "g", "e">>))
    ELSE d

\* as CollapseDependsOn, were the versions from 3.0 on forgotten
CollapseDependsOn_OnlyOld(d, version) ==
    IF Has(d, "depends_on") /\ VersionLess(version, V2_1)
    THEN Put(d, "depends_on", PyList(SortedKeys(DOMAIN d["depends_on"].v)))
    ELSE d

\* lines 179-182
CollapseDependsOn(d, version) ==
    IF Has(d, "depends_on")
       /\ (VersionLess(version, V2_1) \/ ~VersionLess(version, V3_0))
    THEN Put(d, "depends_on", PyList(SortedKeys(DOMAIN d["depends_on"].v)))
    ELSE d

LegacyPort(p, version) ==
    IF Truthy(p.external_ip) \/ VersionLess(version, V3_2) THEN legacy_repr(p)
    ELSE p

\* lines 199-203
LegacyPorts(d, version) ==
    IF Has(d, "ports")
    THEN Put(d, "ports",
             [i \in 1..Len(d["ports"]) |-> LegacyPort(d["ports"][i], version)])
    ELSE d

LegacyVolume(v) == IF IsMountSpec(v) THEN legacy_repr(v) ELSE v

\* lines 204-207
LegacyVolumes(d, version) ==
    IF Has(d, "volumes")
       /\ (VersionLess(version, V2_3)
           \/ (VersionLess(V3_0, version) /\ VersionLess(version, V3_2)))
    THEN Put(d, "volumes",
             [i \in 1..Len(d["volumes"]) |-> LegacyVolume(d["volumes"][i])])
    ELSE d

\* lines 166-182: the copy, before the healthcheck is looked at
BeforeHealthcheck(service_dict, version, image_digest) ==
    CollapseDependsOn(
        DefaultNetworkMode(SerializeRestart(SetImage(service_dict, image_digest)),
                           version),
        version)

\* lines 199-209: the rest, unless the healthcheck raised
AfterHealthcheck(st, d, version) ==
    IF st.ok
    THEN [ok |-> TRUE, exc |-> "", heap |-> st.heap,
          val |-> LegacyVolumes(LegacyPorts(d, version), version)]
    ELSE [ok |-> FALSE, exc |-> st.exc, heap |-> st.heap, val |-> EmptyDict]

WithHealthcheck(heap, d, version) ==
    AfterHealthcheck(SerializeHealthcheck(heap, d), d, version)

\* [ok, exc, heap, val]: the heap after the call, and the dict returned
denormalize_service_dict(heap, service_dict, version, image_digest) ==
    WithHealthcheck(heap, BeforeHealthcheck(service_dict, version, image_digest),
                    version)

(***************************************************************************)
(* serialize.py: denormalize_config, v3_introduced_name_key                *)
(***************************************************************************)
GroupKeys == <<"networks", "volumes", "secrets", "configs">>

\* as v3_introduced_name_key, were volumes not told apart
v3_introduced_name_key_Same(key) == V3_5

v3_introduced_name_key(key) == IF key = "volumes" THEN V3_4 ELSE V3_5

\* line 57
DigestOf(image_digests, name) ==
    IF Truthy(image_digests) THEN image_digests.v[name] ELSE PyNone

Prepend(v, rest) ==
    IF rest.ok THEN [rest EXCEPT !.val = <<v>> \o rest.val] ELSE rest

\* lines 53-59: the services in order; the first exception ends the loop
RECURSIVE DenormalizeServices(_, _, _, _, _)
RECURSIVE ThenServices(_, _, _, _, _)
DenormalizeServices(heap, services, version, image_digests, i) ==
    IF i > Len(services)
    THEN [ok |-> TRUE, exc |-> "", heap |-> heap, val |-> <<>>]
    ELSE ThenServices(
             denormalize_service_dict(heap, services[i], version,
                                      DigestOf(image_digests, services[i]["name"])),
             services, version, image_digests, i)

ThenServices(one, services, version, image_digests, i) ==
    IF ~one.ok THEN one
    ELSE Prepend(one.val,
                 DenormalizeServices(one.heap, services, version, image_digests,
                                     i + 1))

\* lines 60-63: keyed by name, the name popped from each dict
RECURSIVE ServicesByName(_)
ServicesByName(dicts) ==
    IF dicts = <<>> THEN EmptyDict
    ELSE Put(ServicesByName(SubSeq(dicts, 1, Len(dicts) - 1)),
             dicts[Len(dicts)]["name"], Del(dicts[Len(dicts)], "name"))

\* lines 71-72
DelExternalName(conf) ==
    IF Has(conf, "external_name") THEN Del(conf, "external_name") ELSE conf

\* lines 74-79
NameOrExternal(conf, version, key) ==
    IF ~Has(conf, "name") THEN conf
    ELSE IF VersionLess(version, V2_1)
            \/ (~VersionLess(version, V3_0)
                /\ VersionLess(version, v3_introduced_name_key(key)))
         THEN Del(conf, "name")
    ELSE IF Has(conf, "external")
         THEN Put(conf, "external", PyBool(Truthy(conf["external"])))
    ELSE conf

\* lines 81-83
DelAttachable(conf, version) ==
    IF Has(conf, "attachable") /\ VersionLess(version, V3_2)
    THEN Del(conf, "attachable")
    ELSE conf

\* lines 71-83: one entry of a group, changed in place
DenormalizeEntry(conf, version, key) ==
    DelAttachable(NameOrExternal(DelExternalName(conf), version, key), version)

\* lines 70-83: every entry of result[key]
RECURSIVE DenormalizeEntries(_, _, _, _)
RECURSIVE DenormalizeEntryAt(_, _, _, _, _)
DenormalizeEntries(heap, addrs, version, key) ==
    IF addrs = {} THEN heap
    ELSE DenormalizeEntryAt(heap, CHOOSE x \in addrs : TRUE, addrs, version, key)

DenormalizeEntryAt(heap, a, addrs, version, key) ==
    DenormalizeEntries([heap EXCEPT ![a] = DenormalizeEntry(heap[a], version, key)],
                       addrs \ {a}, version, key)

Addresses(config_dict) == {config_dict[n] : n \in DOMAIN config_dict}

\* lines 65-83: the four groups from the i-th on
RECURSIVE DenormalizeGroups(_, _, _, _)
DenormalizeGroups(heap, result, config, i) ==
    IF i > Len(GroupKeys) THEN [heap |-> heap, val |-> result]
    ELSE IF DOMAIN config[GroupKeys[i]] = {}
         THEN DenormalizeGroups(heap, result, config, i + 1)
    ELSE DenormalizeGroups(
             DenormalizeEntries(heap, Addresses(config[GroupKeys[i]]),
                                config.version, GroupKeys[i]),
             Put(result, GroupKeys[i], config[GroupKeys[i]]), config, i + 1)

\* as VersionHeader, were version 1 written out as it is
VersionHeader_Unchanged(version) == VersionStr(version)

\* line 52
VersionHeader(version) ==
    IF version = V1 THEN VersionStr(V2_1) ELSE VersionStr(version)

\* lines 52 and 60-63
ResultOf(version, dicts) ==
    [x \in {"version", "services"} |->
        IF x = "version" THEN VersionHeader(version) ELSE ServicesByName(dicts)]

Finish(grp) == [ok |-> TRUE, exc |-> "", heap |-> grp.heap, val |-> grp.val]

\* lines 60-85, unless a service raised
AfterServices(svc, config) ==
    IF svc.ok
    THEN Finish(DenormalizeGroups(svc.heap, ResultOf(config.version, svc.val),
                                  config, 1))
    ELSE svc

\* [ok, exc, heap, val]: the heap after the call, and the result returned
denormalize_config(heap, config, image_digests) ==
    AfterServices(DenormalizeServices(heap, config.services, config.version,
                                      image_digests, 1),
                  config)

(***************************************************************************)
(* serialize.py: serialize_string, serialize_string_escape_dollar and the  *)
(* document handed to yaml.safe_dump                                       *)
(***************************************************************************)
BoolLike == { <<"y">>, <<"n">>, <<"y", "e", "s">>, <<"n", "o">>, <<"o", "n">>,
              <<"o", "f", "f">>, <<"t", "r", "u", "e">>,
              <<"f", "a", "l", "s", "e">> }

\* str.lower()
StrLower(s) == [i \in 1..Len(s) |-> Lower(s[i])]

\* dumper.represent_str(data): a scalar in the style the dumper chooses
represent_str(data) == [value |-> data, style |-> "any"]

serialize_string(data) ==
    IF StrLower(data) \in BoolLike
    THEN [value |-> data, style |-> "double-quoted"]
    ELSE represent_str(data)

\* data.replace('$', '$$')
RECURSIVE EscapeDollar(_)
EscapeDollar(s) ==
    IF s = <<>> THEN s
    ELSE (IF s[1] = "$" THEN <<"$", "$">> ELSE <<s[1]>>) \o EscapeDollar(Tail(s))

serialize_string_escape_dollar(data) == serialize_string(EscapeDollar(data))

\* the representer that yaml.SafeDumper.yaml_representers[str] names
Represent(representer, data) ==
    CASE representer = "serialize_string" -> serialize_string(data)
      [] representer = "serialize_string_escape_dollar" ->
             serialize_string_escape_dollar(data)
      [] OTHER -> represent_str(data)

\* the str scalars of a service of the document, keys and values, in the
\* order of the dump (a mapping is dumped with its keys sorted)
ServiceScalars(d) ==
    (IF Has(d, "image") THEN <<<<"i", "m", "a", "g", "e">>, d["image"].v>> ELSE <<>>)
    \o (IF Has(d, "network_mode")
        THEN <<<<"n", "e", "t", "w", "o", "r", "k", "_", "m", "o", "d", "e">>,
               d["network_mode"].v>>
        ELSE <<>>)

RECURSIVE ServicesScalars(_, _)
ServicesScalars(services, names) ==
    IF names = <<>> THEN <<>>
    ELSE <<names[1]>> \o ServiceScalars(services[names[1]])
         \o ServicesScalars(services, Tail(names))

DocumentScalars(result) ==
    <<<<"s", "e", "r", "v", "i", "c", "e", "s">>>>
    \o ServicesScalars(result["services"], SortedKeys(DOMAIN result["services"]))
    \o <<<<"v", "e", "r", "s", "i", "o", "n">>, result["version"]>>

(***************************************************************************)
(* The state.                                                              *)
(***************************************************************************)
VARIABLES
    pc,            \* the duration codec: where its caller is
    nanos,         \* the value given to serialize_ns_time_value
    sval,          \* the str given to timeparse
    seconds,       \* what timeparse returned
    heap,          \* the objects of the config that are held by address
    config,        \* the NormalizedConfig given to denormalize_config
    image_digests, \* the image_digests given to denormalize_config
    log,           \* the calls of denormalize_config so far
    representer,   \* yaml.SafeDumper.yaml_representers[str]
    call           \* the calls of serialize_config in progress

vars == <<pc, nanos, sval, seconds, heap, config, image_digests, log,
          representer, call>>

codecVars == <<pc, nanos, sval, seconds>>
configVars == <<heap, config, image_digests, log>>
dumpVars == <<representer, call>>

Unset == [t |-> "unset"]

CodecIdle ==
    /\ pc = "idle" /\ nanos = Unset /\ sval = Unset /\ seconds = Unset

ConfigIdle ==
    /\ heap = EmptyDict /\ config = Unset /\ image_digests = PyNone
    /\ log = <<>>

DumpIdle ==
    /\ representer = "represent_str" /\ call = <<>>

(***************************************************************************)
(* The duration codec: a value is formatted and the str is parsed again.   *)
(***************************************************************************)
MaxCount == 1000

\* the nanoseconds of one us, ms, s, m, h: the products of the table's factors
RECURSIVE UnitNanos(_)
UnitNanos(i) ==
    IF i = 0 THEN <<1>> ELSE BigMulSmall(UnitNanos(i - 1), TimeTable[i].factor)

DurationInputs ==
    {BigMul(BigFromNat(k), UnitNanos(i)) : k \in 0..MaxCount, i \in 0..Len(TimeTable)}

InitDuration ==
    /\ pc = "format"
    /\ nanos \in {PyInt(n) : n \in DurationInputs}
    /\ sval = Unset
    /\ seconds = Unset
    /\ ConfigIdle /\ DumpIdle

\* sval = serialize_ns_time_value(nanos)
Format ==
    /\ pc = "format"
    /\ LET r == serialize_ns_time_value(nanos)
       IN  /\ r.ok
           /\ sval' = r.val.v
    /\ pc' = "parse"
    /\ UNCHANGED <<nanos, seconds, configVars, dumpVars>>

\* seconds = timeparse(sval)
Timeparse ==
    /\ pc = "parse"
    /\ seconds' = timeparse(sval)
    /\ pc' = "done"
    /\ UNCHANGED <<nanos, sval, configVars, dumpVars>>

NextDuration == Format \/ Timeparse

SpecDuration == InitDuration /\ [][NextDuration]_vars

(***************************************************************************)
(* The parser alone, on strs put together from a few tokens.               *)
(***************************************************************************)
MaxTokens == 4

Tokens == { <<"1">>, <<"2", "4">>, <<"5">>, <<"3">>, <<".">>, <<"h">>, <<"m">>,
            <<"s">>, <<"u">>, <<"n">>, <<" ">>, <<"x">>, <<"M">> }

RECURSIVE Concat(_)
Concat(seqs) == IF seqs = <<>> THEN <<>> ELSE seqs[1] \o Concat(Tail(seqs))

\* a number too large for a float: 10^HugeLen - 1
HugeLen == 309

Huge == [k \in 1..HugeLen |-> "9"]

\* the tokens that may follow it
MaxTail == 2

InitParse ==
    /\ pc = "parse"
    /\ nanos = Unset
    /\ \/ \E n \in 0..MaxTokens : \E ts \in [1..n -> Tokens] : sval = Concat(ts)
       \/ \E n \in 0..MaxTail : \E ts \in [1..n -> Tokens] :
              sval = Huge \o Concat(ts)
    /\ seconds = Unset
    /\ ConfigIdle /\ DumpIdle

NextParse == Timeparse

SpecParse == InitParse /\ [][NextParse]_vars

(***************************************************************************)
(* The denormalizer: denormalize_config is called, again and again, on one *)
(* NormalizedConfig.                                                       *)
(***************************************************************************)
MaxCalls == 2

\* compose.const: every version from 1 to 3.5, by major.minor
SupportedVersions ==
    {V1} \cup {<<2, m>> : m \in 0..3} \cup {<<3, m>> : m \in 0..5}

Web == <<"w", "e", "b">>
Db == <<"d", "b">>

HealthcheckAddr(name) == <<"healthcheck", name>>

\* the healthcheck dicts a service may hold
Healthchecks == {
    [x \in {"test", "interval"} |->
        IF x = "test" THEN PyStr(<<"t">>) ELSE PyInt(BigFromNat(1000))],
    [x \in {"interval", "timeout", "start_period"} |->
        CASE x = "interval" -> PyInt(BigMul(BigFromNat(90), UnitNanos(3)))
          [] x = "timeout" -> PyInt(<<>>)
          [] OTHER -> PyInt(BigFromNat(1500))] }

\* the attributes a service may have besides its name and image
Extras == [x \in {"restart", "network_mode", "ports", "volumes"} |->
    CASE x = "restart" ->
             [Name |-> <<"o", "n">>, MaximumRetryCount |-> 3]
      [] x = "network_mode" -> PyStr(<<"h", "o", "s", "t">>)
      [] x = "ports" ->
             <<[t |-> "ServicePort", short |-> <<"8", "0">>, external_ip |-> PyNone],
               [t |-> "ServicePort", short |-> <<"1", ":", "8", "1">>,
                external_ip |-> PyStr(<<"1">>)]>>
      [] OTHER ->
             <<[t |-> "MountSpec", short |-> <<"a", ":", "b">>],
               PyStr(<<"c", ":", "d">>)>>]

DependsOn == PyDict([n \in {Db, <<"c">>} |->
                       [condition |-> IF n = Db THEN "service_healthy"
                                      ELSE "service_started"]])

Merge(d1, d2) == [x \in (DOMAIN d1) \cup (DOMAIN d2) |->
                    IF x \in DOMAIN d2 THEN d2[x] ELSE d1[x]]

Service(name, image, full, deps, hc) ==
    LET base == [x \in {"name", "image"} |-> IF x = "name" THEN name ELSE PyStr(image)]
        d1   == IF full THEN Merge(base, Extras) ELSE base
        d2   == IF deps THEN Put(d1, "depends_on", DependsOn) ELSE d1
    IN  IF hc THEN Put(d2, "healthcheck", HealthcheckAddr(name)) ELSE d2

\* the attributes an entry of a group may have
EntryAttrs == [x \in {"driver", "external_name", "name", "external", "attachable"} |->
    CASE x = "driver" -> PyStr(<<"d">>)
      [] x = "external_name" -> PyStr(<<"e">>)
      [] x = "name" -> PyStr(<<"n">>)
      [] x = "external" -> PyDict([k \in {"name"} |-> PyStr(<<"e">>)])
      [] OTHER -> PyBool(TRUE)]

Entries == {[x \in keys \cup {"driver"} |-> EntryAttrs[x]] :
              keys \in SUBSET {"external_name", "name", "external", "attachable"}}

Resource == <<"r">>

\* a group is empty or holds one entry
Group(key, present) ==
    IF key \in present THEN [n \in {Resource} |-> <<key, Resource>>] ELSE EmptyDict

GroupKeySet == {GroupKeys[i] : i \in 1..Len(GroupKeys)}

InitConfig ==
    /\ CodecIdle /\ DumpIdle
    /\ log = <<>>
    /\ \E version \in SupportedVersions, full \in BOOLEAN, deps \in BOOLEAN,
          hcs \in [{Web} -> Healthchecks] \cup [{Web, Db} -> Healthchecks]
                  \cup {EmptyDict},
          present \in {{}, {"volumes"}, GroupKeySet}, entry \in Entries,
          digests \in BOOLEAN :
          /\ present = {} => entry = [x \in {"driver"} |-> EntryAttrs[x]]
          /\ Db \in DOMAIN hcs => hcs[Db] = hcs[Web]
          /\ config =
               [version  |-> version,
                services |->
                    (IF Db \in DOMAIN hcs
                     THEN <<Service(Db, <<"d">>, FALSE, FALSE, TRUE)>> ELSE <<>>)
                    \o <<Service(Web, <<"$", "w">>, full, deps, Web \in DOMAIN hcs)>>,
                networks |-> Group("networks", present),
                volumes  |-> Group("volumes", present),
                secrets  |-> Group("secrets", present),
                configs  |-> Group("configs", present)]
          /\ heap = [a \in {HealthcheckAddr(n) : n \in DOMAIN hcs}
                            \cup {<<k, Resource>> : k \in present} |->
                       IF a[1] = "healthcheck" THEN hcs[a[2]] ELSE entry]
          /\ image_digests =
               IF digests
               THEN PyDict([n \in {Web, Db} |-> PyStr(<<"s", "h", "a">>)])
               ELSE PyNone

Logged(r, before) ==
    [before |-> before, after |-> r.heap, ok |-> r.ok, exc |-> r.exc, val |-> r.val]

\* result = denormalize_config(config, image_digests)
Denormalize ==
    /\ Len(log) < MaxCalls
    /\ heap' = denormalize_config(heap, config, image_digests).heap
    /\ log' = Append(log, Logged(denormalize_config(heap, config, image_digests),
                                 heap))
    /\ UNCHANGED <<config, image_digests, codecVars, dumpVars>>

NextConfig == Denormalize

Spec == InitConfig /\ [][NextConfig]_vars

(***************************************************************************)
(* serialize.py: serialize_config, called twice, the two calls running     *)
(* side by side (two threads).  A call's steps are its two registrations,  *)
(* the evaluation of denormalize_config(config, image_digests), and        *)
(* yaml.safe_dump, which looks the representer of str up in the dumper     *)
(* class's table as it runs; the dump is taken as one step.                *)
(***************************************************************************)
Callers == {1, 2}

Images == { <<"$", "w">>, <<"Y", "e", "s">>, <<"w">> }

\* the name of the representer that serialize_config registers: lines 95-100
Chosen(escape_dollar) ==
    IF escape_dollar THEN "serialize_string_escape_dollar" ELSE "serialize_string"

InitSerialize ==
    /\ CodecIdle
    /\ heap = EmptyDict
    /\ log = <<>>
    /\ image_digests = PyNone
    /\ \E version \in {V1, V3_5}, image \in Images, full \in BOOLEAN :
          config = [version  |-> version,
                    services |-> <<Service(Web, image, full, FALSE, FALSE)>>,
                    networks |-> EmptyDict, volumes |-> EmptyDict,
                    secrets  |-> EmptyDict, configs |-> EmptyDict]
    /\ representer \in {"represent_str", "serialize_string",
                        "serialize_string_escape_dollar"}
    /\ call \in [Callers -> {[pc |-> "line 95", escape_dollar |-> e,
                              document |-> <<>>, out |-> <<>>] : e \in BOOLEAN}]

\* lines 96 and 99, then lines 97 and 100: add_representer(str, ...)
Register(c) ==
    /\ call[c].pc \in {"line 95", "line 97"}
    /\ representer' = Chosen(call[c].escape_dollar)
    /\ call' = [call EXCEPT ![c].pc = IF call[c].pc = "line 95" THEN "line 97"
                                      ELSE "line 102"]
    /\ UNCHANGED <<codecVars, configVars>>

\* line 102: denormalize_config(config, image_digests)
Document(c) ==
    /\ call[c].pc = "line 102"
    /\ denormalize_config(heap, config, image_digests).ok
    /\ heap' = denormalize_config(heap, config, image_digests).heap
    /\ call' = [call EXCEPT
                  ![c].pc = "line 101",
                  ![c].document =
                      DocumentScalars(denormalize_config(heap, config,
                                                         image_digests).val)]
    /\ UNCHANGED <<config, image_digests, log, codecVars, representer>>

\* lines 101-107: yaml.safe_dump(...), every str through the table's representer
Dump(c) ==
    /\ call[c].pc = "line 101"
    /\ call' = [call EXCEPT
                  ![c].pc = "returned",
                  ![c].out = [i \in 1..Len(call[c].document) |->
                                Represent(representer, call[c].document[i])]]
    /\ UNCHANGED <<codecVars, configVars, representer>>

NextSerialize == \E c \in Callers : Register(c) \/ Document(c) \/ Dump(c)

SpecSerialize == InitSerialize /\ [][NextSerialize]_vars

(***************************************************************************)
(* The claims about the duration codec (SpecDuration, SpecParse).          *)
(***************************************************************************)
\* the chain of units ns, us, ms, s, m, h and the factor from each to the next
ChainUnits == << <<"n", "s">>, <<"u", "s">>, <<"m", "s">>, <<"s">>, <<"m">>, <<"h">> >>
ChainFactors == <<1000, 1000, 1000, 60, 60>>

\* the nanoseconds of the u-th unit of the chain
RECURSIVE ChainNanos(_)
ChainNanos(u) ==
    IF u = 1 THEN <<1>> ELSE BigMulSmall(ChainNanos(u - 1), ChainFactors[u - 1])

Zero == PyInt(<<>>)

Formatted == pc \in {"parse", "done"} /\ nanos # Unset

\* C4, as claimed: serialize_ns_time_value(0) returns "0ns"
C4_ZeroIsNanoseconds ==
    (Formatted /\ nanos = Zero) => sval = <<"0", "n", "s">>

\* C4, amended: serialize_ns_time_value(0) returns "0h": every division of
\* zero leaves no remainder, so zero is promoted to the coarsest unit
C4_ZeroIsHours ==
    (Formatted /\ nanos = Zero) => sval = <<"0", "h">>

C4_Witness == Formatted /\ nanos = Zero /\ sval = <<"0", "h">>

\* what sval reads as: a decimal integer v followed by the u-th unit
ReadsAs(s, v, u) == s = StrOfInt(v) \o ChainUnits[u]

\* C5: for a positive n, serialize_ns_time_value(n) is "{v}{unit}" with v times
\* the unit's nanoseconds equal to n, and the unit is h or v is not divisible
\* by the factor to the next coarser unit
C5_HighestExactUnit ==
    (Formatted /\ nanos # Zero) =>
        \E u \in 1..6 :
            LET v == IntOfDigits(SubSeq(sval, 1, DigitRun(sval, 1))) IN
            /\ ReadsAs(sval, v, u)
            /\ BigMul(v, ChainNanos(u)) = nanos.v
            /\ (u = 6 \/ BigDivMod(v, ChainFactors[u]).r # 0)

\* 24*60*10**9 gives "24m"
C5_Witness ==
    /\ Formatted
    /\ nanos = PyInt(BigMul(BigFromNat(24 * 60), ChainNanos(4)))
    /\ sval = <<"2", "4", "m">>

\* C6, as claimed: timeparse(serialize_ns_time_value(n)) is a value and,
\* multiplied by 10^9, equals n
C6_RoundTripExact ==
    (pc = "done" /\ nanos # Unset) =>
        /\ seconds.ok
        /\ seconds.val # PyNone
        /\ FMul(seconds.val.v, FFromInt(ChainNanos(4))) = FFromInt(nanos.v)

\* The grammar of C7, read off the str from left to right without search: a
\* number is a run of digits and points, a suffix the run of other characters
\* that follows it.
IsNumberChar(c) == IsDigit(c) \/ c = "."

NumberRun(s, pos) ==
    LET stop == CHOOSE e \in pos..(Len(s) + 1) :
                    /\ e > Len(s) \/ ~IsNumberChar(s[e])
                    /\ \A j \in pos..(e - 1) : IsNumberChar(s[j])
    IN  stop - pos

SuffixRun(s, pos) ==
    LET stop == CHOOSE e \in pos..(Len(s) + 1) :
                    /\ e > Len(s) \/ IsNumberChar(s[e])
                    /\ \A j \in pos..(e - 1) : ~IsNumberChar(s[j])
    IN  stop - pos

\* s without the whitespace around it
RECURSIVE TrimRight(_)
TrimRight(s) ==
    IF s # <<>> /\ IsSpace(s[Len(s)]) THEN TrimRight(SubSeq(s, 1, Len(s) - 1)) ELSE s

Trim(s) == TrimRight(SubSeq(s, SpaceRun(s, 1) + 1, Len(s)))

\* an unsigned decimal number: digits with at most one point among them
IsNumber(w) ==
    /\ \E i \in 1..Len(w) : IsDigit(w[i])
    /\ Cardinality({i \in 1..Len(w) : w[i] = "."}) <= 1

\* the suffixes h, m, s, ms, us, ns in their order (in either case; us is
\* also written with the micro sign): the place of w among them, or 0
SuffixPlace(w) ==
    LET l == StrLower(w) IN
    CASE l = <<"h">> -> 1
      [] l = <<"m">> -> 2
      [] l = <<"s">> -> 3
      [] l = <<"m", "s">> -> 4
      [] l = <<"u", "s">> \/ l = <<"mu", "s">> -> 5
      [] l = <<"n", "s">> -> 6
      [] OTHER -> 0

\* s cut into <<number, suffix>> pairs; <<<<>>>> if it cannot be cut so
RECURSIVE Components(_, _)
Components(s, pos) ==
    IF pos > Len(s) THEN <<>>
    ELSE LET n == NumberRun(s, pos)
             l == SuffixRun(s, pos + n)
         IN  IF n = 0 \/ l = 0 THEN << <<>> >>
             ELSE << <<SubSeq(s, pos, pos + n - 1),
                       SubSeq(s, pos + n, pos + n + l - 1)>> >>
                  \o Components(s, pos + n + l)

InGrammar(s) ==
    LET cs == Components(Trim(s), 1) IN
    /\ cs # <<>>
    /\ \A i \in 1..Len(cs) :
          /\ cs[i] # <<>>
          /\ IsNumber(cs[i][1])
          /\ SuffixPlace(cs[i][2]) > 0
    /\ \A i \in 1..(Len(cs) - 1) : SuffixPlace(cs[i][2]) < SuffixPlace(cs[i + 1][2])

\* the seconds of h, m, s, ms, us, ns as floats
SuffixSeconds == <<
    FFromInt(BigFromNat(3600)), FFromInt(BigFromNat(60)), FFromInt(BigFromNat(1)),
    FDiv(BigFromNat(1), <<1000>>), FDiv(BigFromNat(1), <<1000, 1000>>),
    FDiv(BigFromNat(1), <<1000, 1000, 1000>>) >>

\* the value of a number, as a float
ValueOf(w) ==
    IF \E i \in 1..Len(w) : w[i] = "." THEN FloatOfLiteral(w)
    ELSE FFromInt(IntOfDigits(w))

\* the sum, from left to right, of value times multiplier
RECURSIVE ComponentSum(_, _)
ComponentSum(cs, acc) ==
    IF cs = <<>> THEN acc
    ELSE ComponentSum(Tail(cs),
                      FAdd(acc, FMul(SuffixSeconds[SuffixPlace(cs[1][2])],
                                     ValueOf(cs[1][1]))))

Parsed == pc = "done" /\ nanos = Unset

\* timeparse returns None, without raising, for every str outside the grammar
AbsentOutsideGrammar ==
    (Parsed /\ ~InGrammar(sval)) => seconds = Returned(PyNone)

\* for every str of the grammar it returns the sum of value times multiplier
SumInsideGrammar ==
    (Parsed /\ InGrammar(sval)) =>
        seconds = Returned(PyFloat(ComponentSum(Components(Trim(sval), 1), FZero)))

\* C7, as claimed: timeparse returns None, never raising, for every str that
\* is not, once trimmed, a non-empty run of number+suffix components in the
\* order h, m, s, ms, us, ns, each at most once; for every str that is, it
\* returns the sum of value times multiplier
C7_AbsentOrSum == AbsentOutsideGrammar /\ SumInsideGrammar

(***************************************************************************)
(* The claims about the denormalizer (Spec).                               *)
(***************************************************************************)
\* a value as == sees it: every address replaced by the object it holds
SeenService(d, h) ==
    IF Has(d, "healthcheck") THEN Put(d, "healthcheck", h[d["healthcheck"]]) ELSE d

Seen(result, h) ==
    [k \in DOMAIN result |->
        IF k = "version" THEN result[k]
        ELSE IF k = "services"
             THEN [n \in DOMAIN result[k] |-> SeenService(result[k][n], h)]
        ELSE [n \in DOMAIN result[k] |-> h[result[k][n]]]]

Calls == 1..Len(log)

Returns == {i \in Calls : log[i].ok}

\* C1, as claimed: denormalize_config never mutates its input: after a call,
\* every healthcheck mapping and every entry of networks, volumes, secrets and
\* configs is equal to its value before the call
C1_InputNeverMutated == \A i \in Calls : log[i].after = log[i].before

\* C2, as claimed: two calls in succession on the same config both succeed,
\* and the second returns a result equal to the first
C2_SecondCallEqual ==
    Len(log) >= 2 =>
        /\ log[1].ok
        /\ log[2].ok
        /\ Seen(log[2].val, heap) = Seen(log[1].val, heap)

\* the supported version next after v
Successor(v) ==
    CHOOSE w \in SupportedVersions :
        /\ VersionLess(v, w)
        /\ \A x \in SupportedVersions : VersionLess(v, x) => ~VersionLess(x, w)

ResultGroups(i) == GroupKeySet \cap DOMAIN log[i].val

Named(i, key) ==
    {n \in DOMAIN log[i].val[key] : Has(log[i].before[log[i].val[key][n]], "name")}

NameGone(i, key, n) == ~Has(log[i].after[log[i].val[key][n]], "name")

\* the version that brought the name key to a kind of group
Introduced(key) == IF key = "volumes" THEN <<3, 4>> ELSE <<3, 5>>

\* C9, as claimed: an entry's 'name' is removed exactly when the version is
\* earlier than the one that introduced the name key for its kind of group
C9_NameGoneBeforeIntroduced ==
    \A i \in Returns : \A key \in ResultGroups(i) : \A n \in Named(i, key) :
        NameGone(i, key, n) <=> VersionLess(config.version, Introduced(key))

\* C9, amended: an entry's 'name' is removed exactly when the version is
\* earlier than 2.1, or is 3.0 or later and earlier than the one that
\* introduced the name key for its kind of group; from 2.1 up to 3.0 it stays
C9_NameGoneOutsideV2 ==
    \A i \in Returns : \A key \in ResultGroups(i) : \A n \in Named(i, key) :
        NameGone(i, key, n) <=>
            \/ VersionLess(config.version, <<2, 1>>)
            \/ /\ ~VersionLess(config.version, <<3, 0>>)
               /\ VersionLess(config.version, Introduced(key))

\* at 3.4 the name of a volume stays and that of a network goes
C9_Witness ==
    /\ config # Unset
    /\ config.version = V3_4
    /\ 1 \in Returns
    /\ {"volumes", "networks"} \subseteq ResultGroups(1)
    /\ Named(1, "volumes") # {} /\ Named(1, "networks") # {}
    /\ \A n \in Named(1, "volumes") : ~NameGone(1, "volumes", n)
    /\ \A n \in Named(1, "networks") : NameGone(1, "networks", n)

\* the services of the config that have a depends_on mapping
Dependent == {s \in 1..Len(config.services) : Has(config.services[s], "depends_on")}

\* l is the names of the mapping m, each once, in lexicographic order
IsSortedNamesOf(l, m) ==
    /\ l.t = "list"
    /\ {l.v[k] : k \in 1..Len(l.v)} = DOMAIN m.v
    /\ \A k \in 1..(Len(l.v) - 1) : StrLess(l.v[k], l.v[k + 1])

DependsOnOut(i, s) == log[i].val["services"][config.services[s]["name"]]["depends_on"]

\* C10: for a version at or after 3.0, or before 2.1, the depends_on of the
\* result is the sorted list of the names of the mapping; for a version from
\* 2.1 up to 3.0 it is the mapping as it was
C10_DependsOnCollapsed ==
    \A i \in Returns : \A s \in Dependent :
        IF ~VersionLess(config.version, <<3, 0>>) \/ VersionLess(config.version, <<2, 1>>)
        THEN IsSortedNamesOf(DependsOnOut(i, s), config.services[s]["depends_on"])
        ELSE DependsOnOut(i, s) = config.services[s]["depends_on"]

C10_Witness ==
    /\ config # Unset
    /\ config.version = V3_0
    /\ 1 \in Returns
    /\ Dependent # {}
    /\ \A s \in Dependent : DependsOnOut(1, s) = PyList(<< <<"c">>, Db >>)

(***************************************************************************)
(* The claim about serialize_config (SpecSerialize).                       *)
(***************************************************************************)
\* C3, as claimed: each call's strs are emitted by the presenter its own
\* escape_dollar flag selects, whatever the other call registers
C3_ModeIsCallScoped ==
    \A c \in DOMAIN call :
        call[c].pc = "returned" =>
            call[c].out = [i \in 1..Len(call[c].document) |->
                             Represent(Chosen(call[c].escape_dollar),
                                       call[c].document[i])]

=============================================================================
